---------------------------- MODULE Spec2Model ----------------------------
(***************************************************************************)
(* Floyd-Warshall all-pairs shortest paths with next-hop path              *)
(* reconstruction, as implemented by class FloydWarshall in src/main.cpp.  *)
(*                                                                         *)
(* Vertex identifiers are std::string; here a string is a sequence of      *)
(* one-character strings, so that std::string::find (a substring search)   *)
(* and the "-"-joined path string are modelled by what they do.            *)
(* Edge weights are small integers, for which double arithmetic is exact.  *)
(*                                                                         *)
(* Every iteration of a loop of InitEdges, GenerateDistanceMatrix and      *)
(* PrintDistances is a step.                                               *)
(*                                                                         *)
(* Two specifications of the same program, which differ in the vertex      *)
(* identifiers of the input file only:                                     *)
(*   Spec            four identifiers "a", "b", "c", "d", none a substring *)
(*                   of another. The program only compares identifiers     *)
(*                   and searches them in path strings, so renaming such   *)
(*                   identifiers changes nothing else: the input names its *)
(*                   vertices in the order of their first appearance;      *)
(*   SpecSubstrings  three identifiers "a", "b", "ab", in any order: "a"   *)
(*                   and "b" are substrings of "ab".                       *)
(***************************************************************************)
EXTENDS Integers, Sequences, FiniteSets, TLC

\* ------------------------------------------------------------------ bounds

\* Number of distinct (source, destination) pairs the input file may set
\* (an edge repeating a pair already set may always be read: last write wins).
MaxEdges == 3

\* Number of calls of GenerateDistanceMatrix on one object.
MaxCalls == 2

\* Vertex identifiers of the input under Spec, in the order in which the
\* input file first mentions them.
NameOrder == << <<"a">>, <<"b">>, <<"c">>, <<"d">> >>

Names == { NameOrder[x] : x \in 1..Len(NameOrder) }

\* Vertex identifiers of the input under SpecSubstrings: "a", "b" and "ab".
SubstringNames == { <<"a">>, <<"b">>, <<"a", "b">> }

\* Edge weights of the input.
Weights == { -1, 1, 2 }

\* ------------------------------------------------------------ the program

\* const double DOUBLE_MAX = std::numeric_limits<double>::max();
DOUBLE_MAX == 1000000

\* The separator GetPath puts between two vertices of a path.
Dash == <<"-">>

\* The string GetPath returns for an unreachable pair.
NoPathString == <<"N", "o", " ", "p", "a", "t", "h">>

VARIABLES
    pc,            \* where main() is
    weight,        \* the input file so far: last weight read for each pair
    vertices_,     \* FloydWarshall::vertices_
    dist_matrix_,  \* FloydWarshall::dist_matrix_ (a map: its DOMAIN is its key set)
    next_vertex_,  \* FloydWarshall::next_vertex_ (a map: its DOMAIN is its key set)
    pos,           \* loop position: <<k, i, j>> in GenerateDistanceMatrix, <<i, j>> in PrintDistances
    calls,         \* calls of GenerateDistanceMatrix begun so far
    report         \* the lines PrintDistances has written to the output file

vars == <<pc, weight, vertices_, dist_matrix_, next_vertex_, pos, calls, report>>

\* std::map::operator[] used as a read: a missing key is inserted with the
\* value-initialised mapped value.
Subscript(m, key, dflt) == IF key \in DOMAIN m THEN m ELSE m @@ (key :> dflt)

\* std::find(vertices_.begin(), vertices_.end(), v) == vertices_.end(), then push_back.
PushIfNew(vs, v) == IF \E x \in 1..Len(vs) : vs[x] = v THEN vs ELSE Append(vs, v)

\* for_each_vertex_pair: the pairs in iteration order are <<i, j>>, i outer.
VertexSet == { vertices_[x] : x \in 1..Len(vertices_) }

VertexPairs == VertexSet \X VertexSet

\* The position after <<i, j>> in for_each_vertex_pair over n vertices,
\* <<>> when the loop is over.
NextPair(i, j, n) ==
    IF j < n THEN <<i, j + 1>>
    ELSE IF i < n THEN <<i + 1, 1>>
    ELSE <<>>

\* Mutant of NextTriple: the intermediate vertex k is the innermost loop.
NextTriple_KInnermost(k, i, j, n) ==
    IF k < n THEN <<k + 1, i, j>>
    ELSE IF NextPair(i, j, n) # <<>> THEN <<1>> \o NextPair(i, j, n)
    ELSE <<>>

\* The position after <<k, i, j>> in for_each_vertex(k) { for_each_vertex_pair(i, j) }.
NextTriple(k, i, j, n) ==
    IF NextPair(i, j, n) # <<>> THEN <<k>> \o NextPair(i, j, n)
    ELSE IF k < n THEN <<k + 1, 1, 1>>
    ELSE <<>>

Init ==
    /\ pc = "InitEdges"
    /\ weight = <<>>
    /\ vertices_ = <<>>
    /\ dist_matrix_ = <<>>
    /\ next_vertex_ = <<>>
    /\ pos = <<>>
    /\ calls = 0
    /\ report = <<>>

\* One iteration of the loop of InitEdges: an edge (lhs, rhs, w) is read,
\* its vertices among names.
ReadEdge(names) ==
    /\ pc = "InitEdges"
    /\ \E lhs \in names, rhs \in names, w \in Weights :
        /\ \/ <<lhs, rhs>> \in DOMAIN weight
           \/ Cardinality(DOMAIN weight) < MaxEdges
        /\ weight' = [p \in DOMAIN weight \cup {<<lhs, rhs>>} |->
                        IF p = <<lhs, rhs>> THEN w ELSE weight[p]]
        /\ dist_matrix_' = [p \in DOMAIN dist_matrix_ \cup {<<lhs, rhs>>} |->
                        IF p = <<lhs, rhs>> THEN w ELSE dist_matrix_[p]]
        /\ next_vertex_' = [p \in DOMAIN next_vertex_ \cup {<<lhs, rhs>>} |->
                        IF p = <<lhs, rhs>> THEN rhs ELSE next_vertex_[p]]
        /\ vertices_' = PushIfNew(PushIfNew(vertices_, lhs), rhs)
    /\ UNCHANGED <<pc, pos, calls, report>>

\* One iteration of the loop of InitEdges on an input file that names its
\* vertices in the order NameOrder.
ReadEdgeInOrder ==
    /\ ReadEdge(Names)
    /\ vertices_' = SubSeq(NameOrder, 1, Len(vertices_'))

\* Mutant of InitDistanceMatrix: a diagonal entry set by a self-loop edge is kept.
InitDistanceMatrix_KeepSelfLoop(d, vs) ==
    LET V == { vs[x] : x \in 1..Len(vs) }
    IN [p \in DOMAIN d \cup (V \X V) |->
            IF p \in DOMAIN d THEN d[p]
            ELSE IF p[1] = p[2] THEN 0
            ELSE DOUBLE_MAX]

\* InitDistanceMatrix: the table after the loop over all vertex pairs.
InitDistanceMatrix(d, vs) ==
    LET V == { vs[x] : x \in 1..Len(vs) }
    IN [p \in DOMAIN d \cup (V \X V) |->
            IF p[1] = p[2] /\ p[1] \in V THEN 0
            ELSE IF p \in DOMAIN d THEN d[p]
            ELSE DOUBLE_MAX]

\* End of the input file: InitEdges returns and the constructor runs InitDistanceMatrix.
EndOfInput ==
    /\ pc = "InitEdges"
    /\ dist_matrix_' = InitDistanceMatrix(dist_matrix_, vertices_)
    /\ pc' = "Constructed"
    /\ UNCHANGED <<weight, vertices_, next_vertex_, pos, calls, report>>

\* ------------------------------------------------- GenerateDistanceMatrix

\* Mutant of Improves: the two tests against DOUBLE_MAX are missing.
Improves_NoInfinityGuard(i_k, k_j, i_j) == i_k + k_j < i_j

\* Mutant of Improves: > for <.
Improves_Greater(i_k, k_j, i_j) ==
    /\ i_k < DOUBLE_MAX
    /\ k_j < DOUBLE_MAX
    /\ i_k + k_j > i_j

\* Mutant of Improves: <= for <.
Improves_OrEqual(i_k, k_j, i_j) ==
    /\ i_k < DOUBLE_MAX
    /\ k_j < DOUBLE_MAX
    /\ i_k + k_j <= i_j

\* The condition of the relaxation: i_k < DOUBLE_MAX && k_j < DOUBLE_MAX && i_k + k_j < i_j.
Improves(i_k, k_j, i_j) ==
    /\ i_k < DOUBLE_MAX
    /\ k_j < DOUBLE_MAX
    /\ i_k + k_j < i_j

\* Mutant of NextHopAssign: the intermediate vertex k itself is stored.
NextHopAssign_Midpoint(nx, i, j, k) ==
    [p \in DOMAIN nx \cup {<<i, j>>} |-> IF p = <<i, j>> THEN k ELSE nx[p]]

\* next_vertex_[{i, j}] = next_vertex_[{i, k}]; both operator[] may insert "".
NextHopAssign(nx, i, j, k) ==
    LET n1 == Subscript(nx, <<i, k>>, <<>>)
        n2 == Subscript(n1, <<i, j>>, <<>>)
    IN [n2 EXCEPT ![<<i, j>>] = n1[<<i, k>>]]

\* The body of the lambda of GenerateDistanceMatrix for vertices k, i, j:
\* the two tables after it.
RelaxBody(d, nx, k, i, j) ==
    LET d1 == Subscript(d, <<i, k>>, 0)
        d2 == Subscript(d1, <<k, j>>, 0)
        d3 == Subscript(d2, <<i, j>>, 0)
        i_k == d3[<<i, k>>]
        k_j == d3[<<k, j>>]
        i_j == d3[<<i, j>>]
    IN IF Improves(i_k, k_j, i_j)
       THEN [dist |-> [d3 EXCEPT ![<<i, j>>] = i_k + k_j],
             next |-> NextHopAssign(nx, i, j, k)]
       ELSE [dist |-> d3, next |-> nx]

\* A call of GenerateDistanceMatrix begins (main calls it once; a test of
\* idempotence calls it again on the relaxed tables).
CallGenerate ==
    /\ pc \in {"Constructed", "Generated"}
    /\ calls < MaxCalls
    /\ calls' = calls + 1
    /\ IF Len(vertices_) = 0
       THEN pc' = "Generated" /\ pos' = <<>>
       ELSE pc' = "Generate" /\ pos' = <<1, 1, 1>>
    /\ UNCHANGED <<weight, vertices_, dist_matrix_, next_vertex_, report>>

\* One iteration of the triple loop of GenerateDistanceMatrix.
RelaxStep ==
    /\ pc = "Generate"
    /\ LET r == RelaxBody(dist_matrix_, next_vertex_,
                          vertices_[pos[1]], vertices_[pos[2]], vertices_[pos[3]])
           np == NextTriple(pos[1], pos[2], pos[3], Len(vertices_))
       IN /\ dist_matrix_' = r.dist
          /\ next_vertex_' = r.next
          /\ pos' = np
          /\ pc' = IF np = <<>> THEN "Generated" ELSE "Generate"
    /\ UNCHANGED <<weight, vertices_, calls, report>>

\* ---------------------------------------------------------------- GetPath

\* path.find(current) != std::string::npos: current occurs in path as a substring.
Find(path, current) ==
    \E x \in 1..(Len(path) - Len(current) + 1) :
        SubSeq(path, x, x + Len(current) - 1) = current

\* The while loop of GetPath from the state (path, current), after `steps`
\* lookups of next_vertex_; chain is the vertices taken so far.
RECURSIVE Walk(_, _, _, _, _, _)
Walk(nx, end, path, current, chain, steps) ==
    IF current = end
    THEN [kind |-> "Path", path |-> path, chain |-> chain, steps |-> steps]
    ELSE IF <<current, end>> \notin DOMAIN nx
    THEN [kind |-> "out_of_range", path |-> path, chain |-> chain, steps |-> steps]
    ELSE LET c == nx[<<current, end>>]
         IN IF c = end
            THEN [kind |-> "Path", path |-> path \o Dash \o c,
                  chain |-> Append(chain, c), steps |-> steps + 1]
            ELSE IF Find(path, c)
            THEN [kind |-> "CycleDetectedException", path |-> path,
                  chain |-> Append(chain, c), steps |-> steps + 1]
            ELSE Walk(nx, end, path \o Dash \o c, c, Append(chain, c), steps + 1)

\* Mutant of GetPath: the test of the distance against DOUBLE_MAX is missing.
GetPath_NoInfinityTest(d, nx, start, end) ==
    IF <<start, end>> \notin DOMAIN d
    THEN [kind |-> "out_of_range", path |-> <<>>, chain |-> <<>>, steps |-> 0]
    ELSE Walk(nx, end, start, start, <<start>>, 0)

\* GetPath(start, end) on tables d, nx: how it ends (kind), the string it
\* returns (path), the vertices it took (chain) and its next_vertex_ lookups (steps).
GetPath(d, nx, start, end) ==
    IF <<start, end>> \notin DOMAIN d
    THEN [kind |-> "out_of_range", path |-> <<>>, chain |-> <<>>, steps |-> 0]
    ELSE IF d[<<start, end>>] = DOUBLE_MAX
    THEN [kind |-> "No path", path |-> NoPathString, chain |-> <<>>, steps |-> 0]
    ELSE Walk(nx, end, start, start, <<start>>, 0)

\* --------------------------------------------------------- PrintDistances

\* PrintDistances begins, after the one call of GenerateDistanceMatrix of main.
CallPrint ==
    /\ pc = "Generated"
    /\ calls = 1
    /\ IF Len(vertices_) = 0
       THEN pc' = "Success" /\ pos' = <<>>
       ELSE pc' = "Print" /\ pos' = <<1, 1>>
    /\ UNCHANGED <<weight, vertices_, dist_matrix_, next_vertex_, calls, report>>

\* One iteration of the loop of PrintDistances, for the pair (lhs, rhs) at pos.
\* An exception of GetPath leaves the loop and is caught in main, which
\* returns 1: "CycleDetected" for CycleDetectedException, "ErrorOccurred" for
\* any other std::exception. The text of the line before " via path: " may or
\* may not have reached the stream when GetPath throws (the operands of <<
\* are ordered only since C++17).
PrintStep ==
    /\ pc = "Print"
    /\ LET lhs == vertices_[pos[1]]
           rhs == vertices_[pos[2]]
           d1 == Subscript(dist_matrix_, <<lhs, rhs>>, 0)
           dist == d1[<<lhs, rhs>>]
           g == GetPath(d1, next_vertex_, lhs, rhs)
           np == NextPair(pos[1], pos[2], Len(vertices_))
           line(text) == [from |-> lhs, to |-> rhs, dist |-> dist, path |-> text]
       IN /\ dist_matrix_' = d1
          /\ IF lhs = rhs
             THEN /\ report' = report
                  /\ pos' = np
                  /\ pc' = IF np = <<>> THEN "Success" ELSE "Print"
             ELSE IF dist = DOUBLE_MAX
             THEN /\ report' = Append(report, line(<<"I", "N", "F">>))
                  /\ pos' = np
                  /\ pc' = IF np = <<>> THEN "Success" ELSE "Print"
             ELSE IF g.kind \in {"Path", "No path"}
             THEN /\ report' = Append(report, line(g.path))
                  /\ pos' = np
                  /\ pc' = IF np = <<>> THEN "Success" ELSE "Print"
             ELSE /\ report' \in {report, Append(report, line(<<>>))}
                  /\ pos' = pos
                  /\ pc' = IF g.kind = "CycleDetectedException"
                            THEN "CycleDetected" ELSE "ErrorOccurred"
    /\ UNCHANGED <<weight, vertices_, next_vertex_, calls>>

\* main on an input file over Names.
Next ==
    \/ ReadEdgeInOrder
    \/ EndOfInput
    \/ CallGenerate
    \/ RelaxStep
    \/ CallPrint
    \/ PrintStep

Spec == Init /\ [][Next]_vars

\* main on an input file over SubstringNames.
NextSubstrings ==
    \/ ReadEdge(SubstringNames)
    \/ EndOfInput
    \/ CallGenerate
    \/ RelaxStep
    \/ CallPrint
    \/ PrintStep

SpecSubstrings == Init /\ [][NextSubstrings]_vars

\* ------------------------------------------------- the graph of the input
\* Reference definitions over the input file alone (weight holds the last
\* weight read for each pair); they do not read the program's tables.

Min(S) == CHOOSE x \in S : \A y \in S : x <= y

\* Opt(S, l)[<<u, v>>]: the minimum total weight of the directed walks from u
\* to v of at most l edges whose intermediate vertices all lie in S; the walk
\* of no edge goes from u to u and weighs 0; DOUBLE_MAX if there is no such walk.
\* (TLC computes the entries of a function constructor on demand, every time
\* they are read; the test Q = Q only makes it compute the table once.)
RECURSIVE Opt(_, _)
Opt(S, l) ==
    IF l = 0
    THEN [p \in VertexPairs |-> IF p[1] = p[2] THEN 0 ELSE DOUBLE_MAX]
    ELSE LET P == Opt(S, l - 1)
             Q == [p \in VertexPairs |->
                    Min({P[p]}
                        \cup {weight[q] : q \in {p} \cap DOMAIN weight}
                        \cup {P[<<p[1], x>>] + weight[<<x, p[2]>>] :
                                x \in {y \in S : /\ <<y, p[2]>> \in DOMAIN weight
                                                 /\ P[<<p[1], y>>] < DOUBLE_MAX}})]
         IN IF Q = Q THEN Q ELSE P

\* The minimum total weight over all directed paths from p[1] to p[2]: when no
\* cycle is negative a minimal walk needs no vertex twice, so Len(vertices_)
\* edges are enough.
MinWeight == Opt(VertexSet, Len(vertices_))

\* A directed cycle of negative total weight exists iff one exists that
\* takes at most Len(vertices_) edges.
NoNegativeCycle ==
    LET M == MinWeight
    IN \A v \in VertexSet : M[<<v, v>>] >= 0

\* No edge (v, v, w) with w < 0.
NoNegativeSelfLoop == \A p \in DOMAIN weight : p[1] = p[2] => weight[p] >= 0

\* The vertices reachable from the set S by one or more edges.
RECURSIVE ReachedFrom(_)
ReachedFrom(S) ==
    LET T == S \cup { p[2] : p \in { q \in DOMAIN weight : q[1] \in S } }
    IN IF T = S THEN S ELSE ReachedFrom(T)

\* A directed path (of no edge when u = v) leads from u to v.
Reachable(u, v) == v \in ReachedFrom({u})

\* The string s cut at every "-".
RECURSIVE Split(_)
Split(s) ==
    IF \A x \in 1..Len(s) : s[x] # "-" THEN <<s>>
    ELSE LET x == Min({ y \in 1..Len(s) : s[y] = "-" })
         IN <<SubSeq(s, 1, x - 1)>> \o Split(SubSeq(s, x + 1, Len(s)))

\* Every consecutive pair of the vertex sequence vs is an edge of the input.
IsEdgePath(vs) == \A x \in 1..(Len(vs) - 1) : <<vs[x], vs[x + 1]>> \in DOMAIN weight

\* The sum of the edge weights along the vertex sequence vs.
RECURSIVE PathWeight(_)
PathWeight(vs) ==
    IF Len(vs) < 2 THEN 0
    ELSE weight[<<vs[1], vs[2]>>] + PathWeight(Tail(vs))

NoRepeat(vs) == \A x, y \in 1..Len(vs) : vs[x] = vs[y] => x = y

\* ------------------------------------------------------------ the claims

\* C1: for an input without negative cycle, after construction and one call of
\* GenerateDistanceMatrix every dist_matrix_ entry (u, v) is the minimum total
\* weight over the directed paths from u to v of the input graph, and it is
\* DOUBLE_MAX exactly when no directed path leads from u to v.
C1_ShortestDistances ==
    (pc = "Generated" /\ calls = 1) =>
        \/ /\ DOMAIN dist_matrix_ = VertexPairs
           /\ dist_matrix_ = MinWeight
           /\ \A p \in VertexPairs :
                 (dist_matrix_[p] = DOUBLE_MAX) <=> ~Reachable(p[1], p[2])
        \/ ~NoNegativeCycle

\* C1 witness: a relaxed four-vertex table without negative cycle but with an
\* edge of negative weight, in which a pair that no walk of one or two edges
\* joins got a finite distance, and another pair is unreachable.
C1_Witness ==
    /\ pc = "Generated" /\ calls = 1 /\ NoNegativeCycle
    /\ Len(vertices_) = 4
    /\ \E p \in DOMAIN weight : weight[p] < 0
    /\ \E p \in VertexPairs :
          dist_matrix_[p] < DOUBLE_MAX /\ Opt(VertexSet, 2)[p] = DOUBLE_MAX
    /\ \E p \in VertexPairs : dist_matrix_[p] = DOUBLE_MAX

\* What GetPath(u, v) gives on the current tables.
PathOf(u, v) == GetPath(dist_matrix_, next_vertex_, u, v)

\* The vertex sequence returned by GetPath(u, v) is a valid shortest path:
\* it starts at u, ends at v, repeats no vertex, goes along edges of the
\* input, and its edge weights sum to dist_matrix_[(u, v)].
ValidPath(u, v) ==
    LET g == PathOf(u, v)
        vs == Split(g.path)
    IN /\ vs = g.chain
       /\ vs[1] = u
       /\ vs[Len(vs)] = v
       /\ NoRepeat(vs)
       /\ IsEdgePath(vs)
       /\ PathWeight(vs) = dist_matrix_[<<u, v>>]

\* C2 as claimed: for every input, whenever GetPath(u, v) called after
\* GenerateDistanceMatrix returns a path, that path is valid: from u to v, no
\* vertex twice, along input edges, of total weight dist_matrix_[(u, v)].
C2_PathValidForEveryInput ==
    pc = "Generated" =>
        \A u \in VertexSet, v \in VertexSet :
            PathOf(u, v).kind = "Path" => ValidPath(u, v)

\* C2 amended: for every input without negative cycle, whenever GetPath(u, v)
\* called after GenerateDistanceMatrix returns a path, that path is valid.
C2_PathValidWithoutNegativeCycle ==
    pc = "Generated" =>
        \/ \A u \in VertexSet, v \in VertexSet :
                PathOf(u, v).kind = "Path" => ValidPath(u, v)
        \/ ~NoNegativeCycle

\* C2 witness: without negative cycle but with an edge of negative weight,
\* GetPath returns a path of four vertices.
C2_Witness ==
    /\ pc = "Generated" /\ NoNegativeCycle
    /\ \E p \in DOMAIN weight : weight[p] < 0
    /\ \E u \in VertexSet, v \in VertexSet :
          /\ PathOf(u, v).kind = "Path"
          /\ Len(PathOf(u, v).chain) = 4

\* The next-hop chain walked by GetPath(u, v) came back to a vertex it had
\* already taken.
ChainRevisits(u, v) ==
    LET ch == PathOf(u, v).chain
    IN \E x \in 1..(Len(ch) - 1) : ch[x] = ch[Len(ch)]

\* C3 as claimed: GetPath(u, v) raises CycleDetectedException only when the
\* next-hop chain revisits a vertex already on the path walked so far, for
\* every set of vertex identifiers.
C3_CycleErrorOnlyOnRevisit ==
    pc = "Generated" =>
        \A u \in VertexSet, v \in VertexSet :
            PathOf(u, v).kind = "CycleDetectedException" => ChainRevisits(u, v)

\* The ordered pairs PrintDistances reports: source # destination.
ReportedPairs == { p \in VertexPairs : p[1] # p[2] }

\* C4 as claimed: a cycle error raised for one ordered pair does not abort
\* the report of the other pairs: when main is over, every ordered pair with
\* source # destination other than the failing one has its line.
C4_CycleErrorConfinedToPair ==
    pc = "CycleDetected" =>
        \A p \in ReportedPairs \ {<<vertices_[pos[1]], vertices_[pos[2]]>>} :
            \E x \in 1..Len(report) : report[x].from = p[1] /\ report[x].to = p[2]

\* C5 as claimed: for every input, a second call of GenerateDistanceMatrix
\* changes neither dist_matrix_ nor next_vertex_.
C5_SecondCallChangesNothing ==
    [][calls' >= 2 =>
            (dist_matrix_' = dist_matrix_ /\ next_vertex_' = next_vertex_)]_vars

\* C5 amended: for every input without negative cycle, a second (or later)
\* call of GenerateDistanceMatrix changes neither dist_matrix_ nor
\* next_vertex_: same key sets, same values.
C5_IdempotentWithoutNegativeCycle ==
    [][calls' >= 2 =>
            \/ dist_matrix_' = dist_matrix_ /\ next_vertex_' = next_vertex_
            \/ ~NoNegativeCycle]_vars

\* C5 witness: a second call has ended on tables without negative cycle in
\* which the first call had found a distance for a pair without direct edge.
C5_Witness ==
    /\ pc = "Generated" /\ calls = 2 /\ NoNegativeCycle
    /\ \E p \in VertexPairs \ DOMAIN weight :
          p[1] # p[2] /\ dist_matrix_[p] < DOUBLE_MAX

\* Every diagonal entry of dist_matrix_ is 0.
DiagonalZero == \A v \in VertexSet : dist_matrix_[<<v, v>>] = 0

\* C6 as claimed: for every input without negative self-loop edge,
\* dist_matrix_[(v, v)] = 0 after construction and in every state during and
\* after GenerateDistanceMatrix.
C6_DiagonalZeroWithoutNegativeSelfLoop ==
    (pc # "InitEdges" /\ NoNegativeSelfLoop) => DiagonalZero

\* C6 amended: for every input without negative cycle (a negative self-loop is
\* one), dist_matrix_[(v, v)] = 0 after construction and in every state
\* during and after GenerateDistanceMatrix.
C6_DiagonalZeroWithoutNegativeCycle ==
    pc # "InitEdges" => (DiagonalZero \/ ~NoNegativeCycle)

\* C6 witness: in the middle of a relaxation, an input without negative cycle
\* that has a self-loop edge of positive weight and an edge of negative weight.
C6_Witness ==
    /\ pc = "Generate" /\ pos[1] = 2 /\ NoNegativeCycle
    /\ \E p \in DOMAIN weight : p[1] = p[2] /\ weight[p] > 0
    /\ \E p \in DOMAIN weight : weight[p] < 0

\* next_vertex_ has an entry only for pairs of finite distance.
NextOnlyWhereFinite(d, nx) ==
    \A p \in DOMAIN nx : p \in DOMAIN d /\ d[p] < DOUBLE_MAX

\* The pair (i, j) the relaxation loop is at.
RelaxedPair == <<vertices_[pos[2]], vertices_[pos[3]]>>

\* C7 as claimed: next_vertex_ has an entry for (i, j) only if
\* dist_matrix_[(i, j)] is finite; after construction no step adds a key to
\* dist_matrix_; a key enters next_vertex_ only by the edge load or by the
\* relaxation assignment that makes that pair's distance finite (it was
\* DOUBLE_MAX before).
C7_NextHopAppearsWithFiniteDistance ==
    [][/\ NextOnlyWhereFinite(dist_matrix_', next_vertex_')
       /\ pc # "InitEdges" => DOMAIN dist_matrix_' = DOMAIN dist_matrix_
       /\ \A p \in DOMAIN next_vertex_' \ DOMAIN next_vertex_ :
            \/ pc = "InitEdges" /\ p \in DOMAIN weight'
            \/ /\ pc = "Generate" /\ p = RelaxedPair
               /\ dist_matrix_[p] = DOUBLE_MAX
               /\ dist_matrix_'[p] < DOUBLE_MAX]_vars

\* C7 amended: as claimed, except that a key enters next_vertex_ only by the
\* edge load or by the relaxation assignment to that pair, which lowers the
\* pair's distance to a finite value (from DOUBLE_MAX, or from 0 for a
\* diagonal pair on a negative cycle).
C7_NextHopAppearsWithRelaxation ==
    [][/\ NextOnlyWhereFinite(dist_matrix_', next_vertex_')
       /\ pc # "InitEdges" => DOMAIN dist_matrix_' = DOMAIN dist_matrix_
       /\ \A p \in DOMAIN next_vertex_' \ DOMAIN next_vertex_ :
            \/ pc = "InitEdges" /\ p \in DOMAIN weight'
            \/ /\ pc = "Generate" /\ p = RelaxedPair
               /\ dist_matrix_'[p] < dist_matrix_[p]
               /\ dist_matrix_'[p] < DOUBLE_MAX
               /\ (dist_matrix_[p] = DOUBLE_MAX \/ (p[1] = p[2] /\ dist_matrix_[p] = 0))]_vars

\* C7 witness: the report is being written, some pair is still at DOUBLE_MAX
\* without next hop, and the relaxation gave a next hop to a pair of two
\* vertices that has no direct edge and to a diagonal pair.
C7_Witness ==
    /\ pc = "Print"
    /\ \E p \in VertexPairs : dist_matrix_[p] = DOUBLE_MAX /\ p \notin DOMAIN next_vertex_
    /\ \E p \in DOMAIN next_vertex_ \ DOMAIN weight : p[1] # p[2]
    /\ \E p \in DOMAIN next_vertex_ \ DOMAIN weight : p[1] = p[2]

\* C8 as claimed: construction does not silently replace the weight of a
\* negative self-loop edge by distance 0 (it never completes normally on such
\* an input), and a self-loop of weight >= 0 leaves the diagonal at 0.
C8_NegativeSelfLoopFlagged ==
    pc = "Constructed" =>
        \A p \in DOMAIN weight :
            p[1] = p[2] => (weight[p] >= 0 /\ dist_matrix_[p] = 0)

\* The sweeps of the outer loop of GenerateDistanceMatrix that are complete.
SweepsDone == IF pc = "Generated" THEN Len(vertices_) ELSE pos[1] - 1

\* The first call of GenerateDistanceMatrix is between two sweeps of its
\* outer loop (before the first, or after the last).
AtSweepBoundary ==
    /\ calls = 1
    /\ \/ pc = "Generated"
       \/ pc = "Generate" /\ pos[2] = 1 /\ pos[3] = 1

\* C9: on an input without negative cycle, when the outer loop has completed
\* the sweeps for k = v1..vm, every dist_matrix_ entry (i, j) is the minimum
\* weight over the directed paths from i to j whose intermediate vertices
\* all lie in {v1..vm} (DOUBLE_MAX if there is none).
C9_SweepInvariant ==
    AtSweepBoundary =>
        \/ dist_matrix_ = Opt({ vertices_[x] : x \in 1..SweepsDone }, Len(vertices_))
        \/ ~NoNegativeCycle

\* C9 witness: after the first of four sweeps, without negative cycle, a
\* pair has been improved through v1 and another pair is not yet minimal.
C9_Witness ==
    /\ AtSweepBoundary /\ NoNegativeCycle
    /\ pc = "Generate" /\ pos[1] = 2 /\ Len(vertices_) = 4
    /\ \E p \in VertexPairs : dist_matrix_[p] < Opt({}, 4)[p]
    /\ \E p \in VertexPairs : dist_matrix_[p] > MinWeight[p]

\* C10: for every input, after GenerateDistanceMatrix, GetPath(u, v) ends
\* after at most V lookups of next_vertex_ with a path ending at v, with "No
\* path" (exactly when the distance is DOUBLE_MAX) or with
\* CycleDetectedException; no lookup fails with out_of_range.
C10_GetPathOutcomes ==
    pc = "Generated" =>
        \A u \in VertexSet, v \in VertexSet :
            LET g == PathOf(u, v)
            IN /\ g.kind \in {"Path", "No path", "CycleDetectedException"}
               /\ g.steps <= Len(vertices_)
               /\ (g.kind = "No path") <=> (dist_matrix_[<<u, v>>] = DOUBLE_MAX)
               /\ g.kind = "Path" => g.chain[Len(g.chain)] = v

\* C10 witness: on an input with a negative cycle, the three outcomes all
\* occur among the pairs of one relaxed table.
C10_Witness ==
    /\ pc = "Generated" /\ ~NoNegativeCycle
    /\ \E u \in VertexSet, v \in VertexSet : u # v /\ PathOf(u, v).kind = "Path"
    /\ \E u \in VertexSet, v \in VertexSet : PathOf(u, v).kind = "No path"
    /\ \E u \in VertexSet, v \in VertexSet :
          PathOf(u, v).kind = "CycleDetectedException" /\ ChainRevisits(u, v)

==========================================================================
